---------------------------- MODULE Spec2Model ----------------------------
(***************************************************************************)
(* DatabaseConfiguration (fdbserver/DatabaseConfiguration.cpp): the raw /  *)
(* mutable key-value store of the configuration namespace, the typed       *)
(* fields parsed from it, the validity predicate and the canonical map.    *)
(*                                                                         *)
(* Byte strings (values, datacenter ids) are sequences of one-character    *)
(* strings.  Keys are TLA+ strings; the leading 0xff byte that every       *)
(* system key carries is left out of their spelling, and their byte order  *)
(* is the order of KeyOrder.                                               *)
(***************************************************************************)
EXTENDS Integers, Sequences, FiniteSets, TLC

VARIABLES
    rawConfiguration,      \* Standalone<VectorRef<KeyValueRef>>: sorted sequence of [key, value]
    mutableConfiguration,  \* Optional<std::map<string,string>>: <<>> or <<map>>
    conf,                  \* the typed fields of the object, one record
    op,                    \* the last call made on the object and its arguments
    ret,                   \* how that call ended and what it returned
    lastWritten,           \* per key, the last value a set wrote (while only sets were made)
    onlySets,              \* TRUE until the first clear
    nOps                   \* number of mutating calls made so far

vars == <<rawConfiguration, mutableConfiguration, conf, op, ret, lastWritten, onlySets, nOps>>

(***************************************************************************)
(* Bounds of the model.                                                    *)
(***************************************************************************)
MaxOps == 3
MaxFieldOps == 2

(***************************************************************************)
(* Keys.  configKeysPrefix is "\xff/conf/", configKeys is the range        *)
(* ["\xff/conf/", "\xff/conf0").  ConfSuffixes lists, in byte order, the   *)
(* key suffixes the model uses: the 28 suffixes of setInternal's dispatch  *)
(* table, the empty suffix, one excluded-server key and the two bounds of   *)
(* excludedServersKeys.                                                    *)
(***************************************************************************)
configKeysPrefix == "/conf/"

ConfSuffixes ==
    << "", "auto_logs", "auto_proxies", "auto_resolvers",
       "excluded/", "excluded/1.2.3.4", "excluded0",
       "initialized", "log_anti_quorum", "log_engine", "log_replicas",
       "log_replication_policy", "log_routers", "logs", "primary_dc",
       "primary_satellite_dcs", "proxies", "remote_dc", "remote_log_policy",
       "remote_log_replicas", "remote_logs", "remote_satellite_dcs", "resolvers",
       "satellite_anti_quorum", "satellite_log_policy", "satellite_log_replicas",
       "satellite_logs", "satellite_usable_dcs", "storage_engine", "storage_quorum",
       "storage_replicas", "storage_replication_policy" >>

configKeysEnd == "/conf0"

KeyOrder ==
    << "/backupDataFormat" >>
    \o [i \in 1..Len(ConfSuffixes) |-> configKeysPrefix \o ConfSuffixes[i]]
    \o << configKeysEnd, "/coordinators" >>

AllKeys == {KeyOrder[i] : i \in 1..Len(KeyOrder)}

\* the position of each key in the byte order
KeyPosition == [key \in AllKeys |-> CHOOSE i \in 1..Len(KeyOrder) : KeyOrder[i] = key]

KeyIndex(key) == KeyPosition[key]

\* byte-string comparison of two keys
KeyLess(a, b) == KeyIndex(a) < KeyIndex(b)

\* KeyRef::startsWith(configKeysPrefix): the keys with a prefix P are those of [P, strinc(P))
startsWithConfigKeysPrefix(key) ==
    /\ ~KeyLess(key, configKeysPrefix)
    /\ KeyLess(key, configKeysEnd)

ConfigKeySet == {k \in AllKeys : startsWithConfigKeysPrefix(k)}

\* the suffix of each key of the namespace
SuffixOf ==
    [key \in ConfigKeySet |->
        ConfSuffixes[CHOOSE i \in 1..Len(ConfSuffixes) : configKeysPrefix \o ConfSuffixes[i] = key]]

\* KeyRef::removePrefix(configKeysPrefix), for a key that starts with it
removePrefix(key) == SuffixOf[key]

K(suffix) == configKeysPrefix \o suffix

(***************************************************************************)
(* Optional<T>: <<>> is the absent value, <<x>> holds x.                   *)
(***************************************************************************)
Absent == <<>>
Some(x) == <<x>>
present(o) == Len(o) = 1


(***************************************************************************)
(* Collaborators' constants: the client knobs read by resetInternal and    *)
(* the numbering of KeyValueStoreType::StoreType.                          *)
(***************************************************************************)
DEFAULT_AUTO_PROXIES == 3
DEFAULT_AUTO_RESOLVERS == 1
DEFAULT_AUTO_LOGS == 3

SSD_BTREE_V1 == 0
MEMORY == 1
SSD_BTREE_V2 == 2
END == 3

(***************************************************************************)
(* Replication policies.  A policy object is PolicyOne, PolicyAcross(count,*)
(* attribute, inner policy) or PolicyAnd(list of policies); info() is its  *)
(* textual signature.  IRepPolicyRef is an Optional of a policy object.    *)
(***************************************************************************)
PolicyOne == [kind |-> "One"]
PolicyAcross(count, attr, inner) == [kind |-> "Across", count |-> count, attr |-> attr, inner |-> inner]
PolicyAnd(parts) == [kind |-> "And", parts |-> parts]

RECURSIVE info(_)
RECURSIVE infoJoin(_, _)
infoJoin(parts, i) ==
    IF i > Len(parts) THEN ""
    ELSE (IF i > 1 THEN " & " ELSE "") \o "(" \o info(parts[i]) \o ")" \o infoJoin(parts, i + 1)
info(p) ==
    CASE p.kind = "One" -> "1"
      [] p.kind = "Across" -> p.attr \o "^" \o ToString(p.count) \o " x " \o info(p.inner)
      [] p.kind = "And" -> "(" \o infoJoin(p.parts, 1) \o ")"

(***************************************************************************)
(* The versioned binary encoding of a policy.  An encoding is the version  *)
(* header "P" followed by a shape byte and (attribute, count) pairs:       *)
(*   "P" "1" a n          PolicyAcross(n, a, PolicyOne)                    *)
(*   "P" "x" a n b m      PolicyAcross(n, a, PolicyAcross(m, b, PolicyOne))*)
(*   "P" "&" a n b m      PolicyAnd(Across(n, a, One), Across(m, b, One))  *)
(* with a, b in "z" (zoneid), "d" (dcid), "h" (data_hall) and n, m a digit *)
(* 1..9.  Every other byte string fails to deserialize.                    *)
(***************************************************************************)
DigitValue(ch) ==
    CASE ch = "0" -> 0 [] ch = "1" -> 1 [] ch = "2" -> 2 [] ch = "3" -> 3 [] ch = "4" -> 4
      [] ch = "5" -> 5 [] ch = "6" -> 6 [] ch = "7" -> 7 [] ch = "8" -> 8 [] ch = "9" -> 9

IsDigit(ch) == ch \in {"0", "1", "2", "3", "4", "5", "6", "7", "8", "9"}

AttributeOf(ch) == CASE ch = "z" -> "zoneid" [] ch = "d" -> "dcid" [] ch = "h" -> "data_hall"

IsPolicyPair(v, i) == v[i] \in {"z", "d", "h"} /\ IsDigit(v[i + 1]) /\ v[i + 1] # "0"

WellFormedPolicy(v) ==
    /\ Len(v) \in {4, 6}
    /\ v[1] = "P"
    /\ IsPolicyPair(v, 3)
    /\ IF Len(v) = 4 THEN v[2] = "1" ELSE v[2] \in {"x", "&"} /\ IsPolicyPair(v, 5)

AcrossAt(v, i, inner) == PolicyAcross(DigitValue(v[i + 1]), AttributeOf(v[i]), inner)

\* serializeReplicationPolicy(reader, policy) on well-formed bytes: the policy read
DecodePolicy(v) ==
    CASE v[2] = "1" -> AcrossAt(v, 3, PolicyOne)
      [] v[2] = "x" -> AcrossAt(v, 3, AcrossAt(v, 5, PolicyOne))
      [] v[2] = "&" -> PolicyAnd(<<AcrossAt(v, 3, PolicyOne), AcrossAt(v, 5, PolicyOne)>>)

\* parseReplicationPolicy(&policy, v): the new value of policy and whether the
\* deserialization threw (the policy is then left as it was)
parseReplicationPolicy(policy, v) ==
    IF WellFormedPolicy(v)
    THEN [policy |-> Some(DecodePolicy(v)), threw |-> FALSE]
    ELSE [policy |-> policy, threw |-> TRUE]

(***************************************************************************)
(* parse(int*, v): atoi of the value's text: leading white space, an       *)
(* optional sign, then the longest run of digits; 0 when there is none.    *)
(***************************************************************************)
RECURSIVE atoiDigits(_, _, _)
atoiDigits(v, i, acc) ==
    IF i > Len(v) \/ ~IsDigit(v[i]) THEN acc
    ELSE atoiDigits(v, i + 1, acc * 10 + DigitValue(v[i]))

RECURSIVE skipSpace(_, _)
skipSpace(v, i) == IF i <= Len(v) /\ v[i] = " " THEN skipSpace(v, i + 1) ELSE i

atoi(v) ==
    LET i == skipSpace(v, 1)
    IN  IF i <= Len(v) /\ v[i] = "-" THEN 0 - atoiDigits(v, i + 1, 0)
        ELSE IF i <= Len(v) /\ v[i] = "+" THEN atoiDigits(v, i + 1, 0)
        ELSE atoiDigits(v, i, 0)

parseInt(v) == atoi(v)

(***************************************************************************)
(* parse(std::vector<Optional<Standalone<StringRef>>>* dcs, v).            *)
(* StringRef::substr(start) is the rest of the string from start;          *)
(* StringRef::substr(start, size) is the size bytes from start, with no    *)
(* bounds check: bytes it takes from beyond the end of v are whatever      *)
(* follows v in memory, the byte g here.  Positions are 0-based as in the  *)
(* code.                                                                   *)
(***************************************************************************)
substrFrom(v, start) == SubSeq(v, start + 1, Len(v))

substr(v, start, size, g) ==
    [j \in 1..size |-> IF start + j <= Len(v) THEN v[start + j] ELSE g]

RECURSIVE parseDcsLoop(_, _, _, _, _)
parseDcsLoop(dcs, v, i, lastBegin, g) ==
    IF i >= Len(v) THEN Append(dcs, Some(substrFrom(v, lastBegin)))
    ELSE IF v[i + 1] = ","
         THEN parseDcsLoop(Append(dcs, Some(substr(v, lastBegin, i, g))), v, i + 1, i + 1, g)
         ELSE parseDcsLoop(dcs, v, i + 1, lastBegin, g)

parseDcs(dcs, v, g) == parseDcsLoop(dcs, v, 0, 0, g)

\* whether parse(dcs, v) reads beyond the end of v
RECURSIVE overreads(_, _, _)
overreads(v, i, lastBegin) ==
    /\ i < Len(v)
    /\ IF v[i + 1] = "," THEN lastBegin + i > Len(v) \/ overreads(v, i + 1, i + 1)
       ELSE overreads(v, i + 1, lastBegin)


(***************************************************************************)
(* The typed fields.  resetInternal() gives every field its default; it    *)
(* does not touch rawConfiguration or mutableConfiguration.                *)
(***************************************************************************)
DefaultFields ==
    [ initialized |-> FALSE,
      masterProxyCount |-> -1, resolverCount |-> -1, desiredTLogCount |-> -1,
      tLogWriteAntiQuorum |-> -1, tLogReplicationFactor |-> -1,
      durableStorageQuorum |-> -1, storageTeamSize |-> -1,
      tLogDataStoreType |-> END, storageServerStoreType |-> END,
      autoMasterProxyCount |-> DEFAULT_AUTO_PROXIES,
      autoResolverCount |-> DEFAULT_AUTO_RESOLVERS,
      autoDesiredTLogCount |-> DEFAULT_AUTO_LOGS,
      primaryDcId |-> Absent, remoteDcId |-> Absent,
      tLogPolicy |-> Absent, storagePolicy |-> Absent,
      remoteTLogPolicy |-> Absent, satelliteTLogPolicy |-> Absent,
      remoteDesiredTLogCount |-> -1, satelliteDesiredTLogCount |-> -1,
      desiredLogRouterCount |-> -1,
      remoteTLogReplicationFactor |-> 0, satelliteTLogReplicationFactor |-> 0,
      satelliteTLogWriteAntiQuorum |-> 0, satelliteTLogUsableDcs |-> 0,
      primarySatelliteDcIds |-> <<>>, remoteSatelliteDcIds |-> <<>> ]

\* a reset that leaves storageTeamSize out of its chain of assignments
resetInternalKeepsTeamSize(c) == [DefaultFields EXCEPT !.storageTeamSize = c.storageTeamSize]

\* a reset that leaves initialized as it was
resetInternalKeepsInitialized(c) == [DefaultFields EXCEPT !.initialized = c.initialized]

\* resetInternal() on the fields c
resetInternal(c) == DefaultFields

(***************************************************************************)
(* setInternal(key, value) on the fields c: the fields after the call,     *)
(* the value returned (handled) and whether the call threw.  g is the byte *)
(* an out-of-bounds substr reads.                                          *)
(***************************************************************************)
Handled(c) == [conf |-> c, handled |-> TRUE, threw |-> FALSE]

PolicyParsed(c, r) == [conf |-> c, handled |-> TRUE, threw |-> r.threw]

\* a last branch that reports the key as handled
UnhandledReturnsTrue(c) == [conf |-> c, handled |-> TRUE, threw |-> FALSE]

\* else return false
Unhandled(c) == [conf |-> c, handled |-> FALSE, threw |-> FALSE]

setInternal(c, key, value, g) ==
    LET ck == removePrefix(key)
    IN  CASE ck = "initialized" -> Handled([c EXCEPT !.initialized = TRUE])
          [] ck = "proxies" -> Handled([c EXCEPT !.masterProxyCount = parseInt(value)])
          [] ck = "resolvers" -> Handled([c EXCEPT !.resolverCount = parseInt(value)])
          [] ck = "logs" -> Handled([c EXCEPT !.desiredTLogCount = parseInt(value)])
          [] ck = "log_replicas" -> Handled([c EXCEPT !.tLogReplicationFactor = parseInt(value)])
          [] ck = "log_anti_quorum" -> Handled([c EXCEPT !.tLogWriteAntiQuorum = parseInt(value)])
          [] ck = "storage_quorum" -> Handled([c EXCEPT !.durableStorageQuorum = parseInt(value)])
          [] ck = "storage_replicas" -> Handled([c EXCEPT !.storageTeamSize = parseInt(value)])
          [] ck = "log_engine" -> Handled([c EXCEPT !.tLogDataStoreType = parseInt(value)])
          [] ck = "storage_engine" -> Handled([c EXCEPT !.storageServerStoreType = parseInt(value)])
          [] ck = "auto_proxies" -> Handled([c EXCEPT !.autoMasterProxyCount = parseInt(value)])
          [] ck = "auto_resolvers" -> Handled([c EXCEPT !.autoResolverCount = parseInt(value)])
          [] ck = "auto_logs" -> Handled([c EXCEPT !.autoDesiredTLogCount = parseInt(value)])
          [] ck = "storage_replication_policy" ->
                LET r == parseReplicationPolicy(c.storagePolicy, value)
                IN  PolicyParsed([c EXCEPT !.storagePolicy = r.policy], r)
          [] ck = "log_replication_policy" ->
                LET r == parseReplicationPolicy(c.tLogPolicy, value)
                IN  PolicyParsed([c EXCEPT !.tLogPolicy = r.policy], r)
          [] ck = "remote_logs" -> Handled([c EXCEPT !.remoteDesiredTLogCount = parseInt(value)])
          [] ck = "remote_log_replicas" -> Handled([c EXCEPT !.remoteTLogReplicationFactor = parseInt(value)])
          [] ck = "remote_log_policy" ->
                LET r == parseReplicationPolicy(c.remoteTLogPolicy, value)
                IN  PolicyParsed([c EXCEPT !.remoteTLogPolicy = r.policy], r)
          [] ck = "satellite_log_policy" ->
                LET r == parseReplicationPolicy(c.satelliteTLogPolicy, value)
                IN  PolicyParsed([c EXCEPT !.satelliteTLogPolicy = r.policy], r)
          [] ck = "satellite_logs" -> Handled([c EXCEPT !.satelliteDesiredTLogCount = parseInt(value)])
          [] ck = "satellite_log_replicas" -> Handled([c EXCEPT !.satelliteTLogReplicationFactor = parseInt(value)])
          [] ck = "satellite_anti_quorum" -> Handled([c EXCEPT !.satelliteTLogWriteAntiQuorum = parseInt(value)])
          [] ck = "satellite_usable_dcs" -> Handled([c EXCEPT !.satelliteTLogUsableDcs = parseInt(value)])
          [] ck = "primary_dc" -> Handled([c EXCEPT !.primaryDcId = Some(value)])
          [] ck = "remote_dc" -> Handled([c EXCEPT !.remoteDcId = Some(value)])
          [] ck = "primary_satellite_dcs" ->
                Handled([c EXCEPT !.primarySatelliteDcIds = parseDcs(c.primarySatelliteDcIds, value, g)])
          [] ck = "remote_satellite_dcs" ->
                Handled([c EXCEPT !.remoteSatelliteDcIds = parseDcs(c.remoteSatelliteDcIds, value, g)])
          [] ck = "log_routers" -> Handled([c EXCEPT !.desiredLogRouterCount = parseInt(value)])
          [] OTHER -> Unhandled(c)

(***************************************************************************)
(* setDefaultReplicationPolicy() on the fields c.                          *)
(***************************************************************************)
ZonePolicy(n) == Some(PolicyAcross(n, "zoneid", PolicyOne))

setDefaultReplicationPolicy(c) ==
    [c EXCEPT
       !.storagePolicy = IF ~present(@) THEN ZonePolicy(c.storageTeamSize) ELSE @,
       !.tLogPolicy = IF ~present(@) THEN ZonePolicy(c.tLogReplicationFactor) ELSE @,
       !.remoteTLogPolicy =
           IF c.remoteTLogReplicationFactor > 0 /\ ~present(@)
           THEN ZonePolicy(c.remoteTLogReplicationFactor) ELSE @,
       !.satelliteTLogPolicy =
           IF c.satelliteTLogReplicationFactor > 0 /\ ~present(@)
           THEN ZonePolicy(c.satelliteTLogReplicationFactor) ELSE @ ]

(***************************************************************************)
(* The resolved counts (getDesiredProxies() and the like).                 *)
(***************************************************************************)
getDesiredProxies(c) == IF c.masterProxyCount >= 1 THEN c.masterProxyCount ELSE c.autoMasterProxyCount
getDesiredResolvers(c) == IF c.resolverCount >= 1 THEN c.resolverCount ELSE c.autoResolverCount
getDesiredLogs(c) == IF c.desiredTLogCount >= 1 THEN c.desiredTLogCount ELSE c.autoDesiredTLogCount
getDesiredRemoteLogs(c) == IF c.remoteDesiredTLogCount = -1 THEN 1 ELSE c.remoteDesiredTLogCount
getDesiredSatelliteLogs(c) == IF c.satelliteDesiredTLogCount = -1 THEN 1 ELSE c.satelliteDesiredTLogCount
getDesiredLogRouters(c) == IF c.desiredLogRouterCount = -1 THEN 1 ELSE c.desiredLogRouterCount

(***************************************************************************)
(* isValid() on the fields c: the conjunction of the source, cut into the  *)
(* groups of conjuncts named below.                                        *)
(***************************************************************************)
\* initialized and the replication numbers of logs and storage
replicationValid(c) ==
    /\ c.initialized
    /\ c.tLogWriteAntiQuorum >= 0
    /\ c.tLogReplicationFactor >= 1
    /\ c.durableStorageQuorum >= 1
    /\ c.storageTeamSize >= 1
    /\ c.durableStorageQuorum <= c.storageTeamSize

\* the resolved role counts and the automatic counts
countsValid(c) ==
    /\ getDesiredProxies(c) >= 1
    /\ getDesiredLogs(c) >= 1
    /\ getDesiredResolvers(c) >= 1
    /\ c.autoMasterProxyCount >= 1
    /\ c.autoResolverCount >= 1
    /\ c.autoDesiredTLogCount >= 1
    /\ getDesiredRemoteLogs(c) >= 1
    /\ getDesiredLogRouters(c) >= 1
    /\ getDesiredSatelliteLogs(c) >= 1

storeTypesValid(c) ==
    /\ c.tLogDataStoreType # END
    /\ c.storageServerStoreType # END

\* a validity check that does not look at the policies
policiesValidUnchecked(c) == TRUE

policiesValid(c) ==
    /\ present(c.storagePolicy)
    /\ present(c.tLogPolicy)

remoteValid(c) ==
    /\ c.remoteTLogReplicationFactor >= 0
    /\ (\/ c.remoteTLogReplicationFactor = 0
        \/ /\ present(c.remoteTLogPolicy)
           /\ present(c.primaryDcId)
           /\ present(c.remoteDcId)
           /\ c.durableStorageQuorum = c.storageTeamSize)

\* a validity check that does not compare the two datacenter ids
dcsValidUnchecked(c) == TRUE

dcsValid(c) == present(c.primaryDcId) = present(c.remoteDcId)

\* a validity check that lets a negative satellite anti-quorum pass
satelliteValidAnyAntiQuorum(c) ==
    /\ c.satelliteTLogReplicationFactor >= 0
    /\ c.satelliteTLogUsableDcs >= 0
    /\ (\/ c.satelliteTLogReplicationFactor = 0
        \/ /\ present(c.satelliteTLogPolicy)
           /\ Len(c.primarySatelliteDcIds) # 0
           /\ Len(c.remoteSatelliteDcIds) # 0
           /\ c.remoteTLogReplicationFactor > 0)
    /\ Len(c.primarySatelliteDcIds) = Len(c.remoteSatelliteDcIds)

satelliteValid(c) ==
    /\ c.satelliteTLogReplicationFactor >= 0
    /\ c.satelliteTLogWriteAntiQuorum >= 0
    /\ c.satelliteTLogUsableDcs >= 0
    /\ (\/ c.satelliteTLogReplicationFactor = 0
        \/ /\ present(c.satelliteTLogPolicy)
           /\ Len(c.primarySatelliteDcIds) # 0
           /\ Len(c.remoteSatelliteDcIds) # 0
           /\ c.remoteTLogReplicationFactor > 0)
    /\ Len(c.primarySatelliteDcIds) = Len(c.remoteSatelliteDcIds)

isValid(c) ==
    /\ replicationValid(c)
    /\ countsValid(c)
    /\ storeTypesValid(c)
    /\ policiesValid(c)
    /\ remoteValid(c)
    /\ dcsValid(c)
    /\ satelliteValid(c)

(***************************************************************************)
(* toMap().  printable() writes a byte string as text: a printable byte as *)
(* itself, a backslash doubled, any other byte as \xNN.  The map is a      *)
(* function from the keys it holds to their text.                          *)
(***************************************************************************)
printableByte(ch) ==
    CASE ch = "\\" -> "\\\\"
      [] ch = "\t" -> "\\x09"
      [] OTHER -> ch

RECURSIVE printableFrom(_, _)
printableFrom(v, i) == IF i > Len(v) THEN "" ELSE printableByte(v[i]) \o printableFrom(v, i + 1)

printable(v) == printableFrom(v, 1)

formatInt(n) == ToString(n)

EmptyMap == [k \in {} |-> ""]

\* the loop of toMap() over a satellite-dc list: the string built so far and `first`
RECURSIVE joinDcsLoop(_, _, _, _)
joinDcsLoop(dcs, i, first, str) ==
    IF i > Len(dcs) THEN str
    ELSE IF present(dcs[i])
         THEN joinDcsLoop(dcs, i + 1,
                          IF ~first THEN FALSE ELSE first,
                          (IF ~first THEN str \o "," ELSE str) \o printable(dcs[i][1]))
         ELSE joinDcsLoop(dcs, i + 1, first, str)

joinDcs(dcs) == joinDcsLoop(dcs, 1, TRUE, "")

\* a classifier that does not look at the log anti-quorum
redundancyModeAnyAntiQuorum(c) ==
    IF c.durableStorageQuorum # c.storageTeamSize THEN "custom"
    ELSE IF c.tLogReplicationFactor = 1 /\ c.durableStorageQuorum = 1 THEN "single"
    ELSE IF c.tLogReplicationFactor = 2 /\ c.durableStorageQuorum = 2 THEN "double"
    ELSE IF c.tLogReplicationFactor = 3 /\ c.durableStorageQuorum = 3 THEN "triple"
    ELSE "custom"

redundancyMode(c) ==
    LET tlogInfo == info(c.tLogPolicy[1])
        storageInfo == info(c.storagePolicy[1])
    IN  IF c.durableStorageQuorum = c.storageTeamSize /\ c.tLogWriteAntiQuorum = 0
        THEN IF c.tLogReplicationFactor = 1 /\ c.durableStorageQuorum = 1 THEN "single"
             ELSE IF c.tLogReplicationFactor = 2 /\ c.durableStorageQuorum = 2 THEN "double"
             ELSE IF /\ c.tLogReplicationFactor = 3 /\ c.durableStorageQuorum = 3
                     /\ tlogInfo = "((dcid^3 x 1) & (zoneid^3 x 1))"
                     /\ storageInfo = "((dcid^3 x 1) & (zoneid^3 x 1))" THEN "three_datacenter"
             ELSE IF c.tLogReplicationFactor = 3 /\ c.durableStorageQuorum = 3 THEN "triple"
             ELSE IF /\ c.tLogReplicationFactor = 4 /\ c.durableStorageQuorum = 3
                     /\ tlogInfo = "data_hall^2 x zoneid^2 x 1"
                     /\ storageInfo = "data_hall^3 x 1" THEN "three_data_hall"
             ELSE IF /\ c.tLogReplicationFactor = 4 /\ c.durableStorageQuorum = 6
                     /\ tlogInfo = "dcid^2 x zoneid^2 x 1"
                     /\ storageInfo = "dcid^3 x zoneid^2 x 1" THEN "multi_dc"
             ELSE "custom"
        ELSE "custom"

storageEngineMode(c) ==
    IF c.tLogDataStoreType = SSD_BTREE_V1 /\ c.storageServerStoreType = SSD_BTREE_V1 THEN "ssd-1"
    ELSE IF c.tLogDataStoreType = SSD_BTREE_V2 /\ c.storageServerStoreType = SSD_BTREE_V2 THEN "ssd-2"
    ELSE IF c.tLogDataStoreType = MEMORY /\ c.storageServerStoreType = MEMORY THEN "memory"
    ELSE "custom"

satelliteRedundancyMode(c) ==
    LET f == c.satelliteTLogReplicationFactor
        u == c.satelliteTLogUsableDcs
        a == c.satelliteTLogWriteAntiQuorum
    IN  IF f = 1 /\ u = 1 /\ a = 0 THEN "one_satellite_single"
        ELSE IF f = 2 /\ u = 1 /\ a = 0 THEN "one_satellite_double"
        ELSE IF f = 3 /\ u = 1 /\ a = 0 THEN "one_satellite_triple"
        ELSE IF f = 4 /\ u = 2 /\ a = 0 THEN "two_satellite_safe"
        ELSE IF f = 4 /\ u = 2 /\ a = 2 THEN "two_satellite_fast"
        ELSE IF f = 0 THEN "none"
        ELSE "custom"

remoteRedundancyMode(c) ==
    IF c.remoteTLogReplicationFactor = 1 THEN "remote_single"
    ELSE IF c.remoteTLogReplicationFactor = 2 THEN "remote_double"
    ELSE IF c.remoteTLogReplicationFactor = 3 THEN "remote_triple"
    ELSE IF c.remoteTLogReplicationFactor = 0 THEN "none"
    ELSE "custom"

Entry(cond, key, text) == IF cond THEN key :> text ELSE EmptyMap

\* toMap() dereferences tLogPolicy and storagePolicy as soon as initialized is set
toMapDereferencesNull(c) == c.initialized /\ (~present(c.tLogPolicy) \/ ~present(c.storagePolicy))

\* toMap() on fields c for which it dereferences no null policy
toMap(c) ==
    IF ~c.initialized THEN EmptyMap
    ELSE ("redundancy_mode" :> redundancyMode(c))
      @@ ("storage_engine" :> storageEngineMode(c))
      @@ Entry(present(c.primaryDcId), "primary_dc", printable(c.primaryDcId[1]))
      @@ Entry(present(c.remoteDcId), "remote_dc", printable(c.remoteDcId[1]))
      @@ Entry(Len(c.primarySatelliteDcIds) # 0, "primary_satellite_dcs", joinDcs(c.primarySatelliteDcIds))
      @@ Entry(Len(c.remoteSatelliteDcIds) # 0, "remote_satellite_dcs", joinDcs(c.remoteSatelliteDcIds))
      @@ ("satellite_redundancy_mode" :> satelliteRedundancyMode(c))
      @@ ("remote_redundancy_mode" :> remoteRedundancyMode(c))
      @@ Entry(c.desiredTLogCount # -1, "logs", formatInt(c.desiredTLogCount))
      @@ Entry(c.desiredTLogCount # -1, "remote_logs", formatInt(c.remoteDesiredTLogCount))
      @@ Entry(c.desiredTLogCount # -1, "satellite_logs", formatInt(c.satelliteDesiredTLogCount))
      @@ Entry(c.masterProxyCount # -1, "proxies", formatInt(c.masterProxyCount))
      @@ Entry(c.resolverCount # -1, "resolvers", formatInt(c.resolverCount))


(***************************************************************************)
(* toString(): the entries of toMap() in the order of the map's keys, each *)
(* as key=value followed by ";", without the last byte.                    *)
(***************************************************************************)
\* the keys toMap() can hold, in byte order
ToMapKeyOrder ==
    << "logs", "primary_dc", "primary_satellite_dcs", "proxies", "redundancy_mode",
       "remote_dc", "remote_logs", "remote_redundancy_mode", "remote_satellite_dcs",
       "resolvers", "satellite_logs", "satellite_redundancy_mode", "storage_engine" >>

\* the pieces appended to result by the loop, from the i-th key on
RECURSIVE toStringLoop(_, _)
toStringLoop(config, i) ==
    IF i > Len(ToMapKeyOrder) THEN <<>>
    ELSE (IF ToMapKeyOrder[i] \in DOMAIN config
          THEN <<ToMapKeyOrder[i] \o "=" \o config[ToMapKeyOrder[i]], ";">>
          ELSE <<>>) \o toStringLoop(config, i + 1)

RECURSIVE concat(_, _)
concat(pieces, i) == IF i > Len(pieces) THEN "" ELSE pieces[i] \o concat(pieces, i + 1)

\* result.substr(0, result.length() - 1): the last piece is the one byte ";"
\* (of an empty result, length() - 1 is the largest size and all of it is kept)
toString(c) ==
    LET pieces == toStringLoop(toMap(c), 1)
    IN  IF pieces = <<>> THEN "" ELSE concat(SubSeq(pieces, 1, Len(pieces) - 1), 1)

(***************************************************************************)
(* The store.  rawConfiguration is a sequence of [key, value] sorted by    *)
(* key; the map of mutableConfiguration is a function from the keys it     *)
(* holds to their values, iterated in key order.                           *)
(***************************************************************************)
\* std::lower_bound(config, key, OrderByKey): the first position whose key is not less than key
lower_bound(config, key) ==
    IF \E i \in 1..Len(config) : ~KeyLess(config[i].key, key)
    THEN CHOOSE i \in 1..Len(config) :
            /\ ~KeyLess(config[i].key, key)
            /\ \A j \in 1..(i - 1) : KeyLess(config[j].key, key)
    ELSE Len(config) + 1

\* the keys of a map, in the order its iterator visits them
RECURSIVE SortedKeys(_)
SortedKeys(keys) ==
    IF keys = {} THEN <<>>
    ELSE LET least == CHOOSE k \in keys : \A o \in keys : ~KeyLess(o, k)
         IN  <<least>> \o SortedKeys(keys \ {least})

\* get(key), read off the two representations
get(raw, mutable, key) ==
    IF present(mutable)
    THEN IF key \in DOMAIN mutable[1] THEN Some(mutable[1][key]) ELSE Absent
    ELSE LET i == lower_bound(raw, key)
         IN  IF i = Len(raw) + 1 \/ raw[i].key # key THEN Absent ELSE Some(raw[i].value)

\* makeConfigurationMutable(): the map afterwards (rawConfiguration is emptied when it is built)
RECURSIVE copyRaw(_, _, _)
copyRaw(mc, raw, i) ==
    IF i > Len(raw) THEN mc
    ELSE copyRaw([k \in DOMAIN mc \cup {raw[i].key} |-> IF k = raw[i].key THEN raw[i].value ELSE mc[k]],
                 raw, i + 1)

makeConfigurationMutable(raw, mutable) ==
    IF present(mutable) THEN [raw |-> raw, mutable |-> mutable]
    ELSE [raw |-> <<>>, mutable |-> Some(copyRaw(EmptyMap, raw, 1))]

\* a collapse that builds the snapshot and keeps the map
makeConfigurationImmutableKeepsOverlay(raw, mutable) ==
    IF ~present(mutable) THEN [raw |-> raw, mutable |-> mutable]
    ELSE LET mc == mutable[1]
             order == SortedKeys(DOMAIN mc)
         IN  [raw |-> [i \in 1..Len(order) |-> [key |-> order[i], value |-> mc[order[i]]]],
              mutable |-> mutable]

\* makeConfigurationImmutable()
makeConfigurationImmutable(raw, mutable) ==
    IF ~present(mutable) THEN [raw |-> raw, mutable |-> mutable]
    ELSE LET mc == mutable[1]
             order == SortedKeys(DOMAIN mc)
         IN  [raw |-> [i \in 1..Len(order) |-> [key |-> order[i], value |-> mc[order[i]]]],
              mutable |-> Absent]

\* a store that keeps the value of a key the map already holds (std::map::insert)
mapStoreKeepsOld(mc, key, value) ==
    [k \in DOMAIN mc \cup {key} |-> IF k \in DOMAIN mc THEN mc[k] ELSE value]

\* mc[key] = value
mapStore(mc, key, value) == [k \in DOMAIN mc \cup {key} |-> IF k = key THEN value ELSE mc[k]]

\* an erase that takes the key at the end of the range as well
mapEraseThroughEnd(mc, begin, end) ==
    [k \in {x \in DOMAIN mc : KeyLess(x, begin) \/ KeyLess(end, x)} |-> mc[k]]

\* mc.erase(mc.lower_bound(begin), mc.lower_bound(end)), for begin <= end
mapErase(mc, begin, end) ==
    [k \in {x \in DOMAIN mc : KeyLess(x, begin) \/ ~KeyLess(x, end)} |-> mc[k]]

\* for (c = mc.begin(); c != mc.end(); ++c) setInternal(c->first, c->second), which
\* ends at the first setInternal that throws
RECURSIVE replay(_, _, _, _, _)
replay(c, mc, order, i, g) ==
    IF i > Len(order) THEN [conf |-> c, threw |-> FALSE]
    ELSE LET r == setInternal(c, order[i], mc[order[i]], g)
         IN  IF r.threw THEN [conf |-> r.conf, threw |-> TRUE]
             ELSE replay(r.conf, mc, order, i + 1, g)

\* the same loop over the pairs of a raw snapshot
RECURSIVE replayRaw(_, _, _, _)
replayRaw(c, raw, i, g) ==
    IF i > Len(raw) THEN [conf |-> c, threw |-> FALSE]
    ELSE LET r == setInternal(c, raw[i].key, raw[i].value, g)
         IN  IF r.threw THEN [conf |-> r.conf, threw |-> TRUE]
             ELSE replayRaw(r.conf, raw, i + 1, g)

(***************************************************************************)
(* What a call returned.                                                   *)
(***************************************************************************)
Returned(kind, b, o) == [kind |-> kind, bool |-> b, opt |-> o]
RetVoid == Returned("void", FALSE, Absent)
RetBool(b) == Returned("bool", b, Absent)
RetOptional(o) == Returned("optional", FALSE, o)
RetThrew == Returned("threw", FALSE, Absent)
RetMap == Returned("map", FALSE, Absent)
RetCrash == Returned("crash", FALSE, Absent)

Call(name, key, value, begin, end) ==
    [name |-> name, key |-> key, value |-> value, begin |-> begin, end |-> end]

\* The object is in use: no call on it has thrown or dereferenced a null policy.
\* Neither failure is caught: it ends the operation under way and the use of the object.
Running == ret.kind \notin {"crash", "threw"}

NoneWritten == [k \in ConfigKeySet |-> Absent]

(***************************************************************************)
(* The object after DatabaseConfiguration().                               *)
(***************************************************************************)
Init ==
    /\ rawConfiguration = <<>>
    /\ mutableConfiguration = Absent
    /\ conf = DefaultFields
    /\ op = Call("DatabaseConfiguration", "", <<>>, "", "")
    /\ ret = RetVoid
    /\ lastWritten = NoneWritten
    /\ onlySets = TRUE
    /\ nOps = 0

(***************************************************************************)
(* fromKeyValues(rawConfig): the one-shot load of a sorted raw snapshot    *)
(* into a newly constructed object.                                        *)
(***************************************************************************)
fromKeyValues(rawConfig, g) ==
    /\ Running
    /\ op.name = "DatabaseConfiguration"
    /\ LET r == replayRaw(resetInternal(conf), rawConfig, 1, g)
       IN  /\ conf' = r.conf
           /\ ret' = IF r.threw THEN RetThrew ELSE RetVoid
    /\ rawConfiguration' = rawConfig
    /\ op' = Call("fromKeyValues", "", <<>>, "", "")
    /\ lastWritten' = [k \in ConfigKeySet |-> get(rawConfig, Absent, k)]
    /\ UNCHANGED <<mutableConfiguration, onlySets, nOps>>

(***************************************************************************)
(* set(key, value), for a key of the configuration namespace.              *)
(***************************************************************************)
set(key, value, g) ==
    /\ Running
    /\ startsWithConfigKeysPrefix(key)
    /\ LET m == makeConfigurationMutable(rawConfiguration, mutableConfiguration)
           r == setInternal(conf, key, value, g)
       IN  /\ rawConfiguration' = m.raw
           /\ mutableConfiguration' = Some(mapStore(m.mutable[1], key, value))
           /\ conf' = r.conf
           /\ ret' = IF r.threw THEN RetThrew ELSE RetBool(r.handled)
    /\ op' = Call("set", key, value, "", "")
    /\ lastWritten' = IF onlySets THEN [lastWritten EXCEPT ![key] = Some(value)] ELSE lastWritten
    /\ nOps' = nOps + 1
    /\ UNCHANGED onlySets

(***************************************************************************)
(* clear(keys), keys = [begin, end) with begin <= end.                     *)
(***************************************************************************)
\* a result that forgets whether the configuration was valid before
clearResultIgnoresBefore(wasValid, c) == ~isValid(c)

\* return wasValid && !isValid(), on the fields c the call leaves
clearResult(wasValid, c) == wasValid /\ ~isValid(c)

clear(begin, end, g) ==
    /\ Running
    /\ ~KeyLess(end, begin)
    /\ LET m == makeConfigurationMutable(rawConfiguration, mutableConfiguration)
           mc == mapErase(m.mutable[1], begin, end)
           wasValid == isValid(conf)
           r == replay(resetInternal(conf), mc, SortedKeys(DOMAIN mc), 1, g)
       IN  /\ rawConfiguration' = m.raw
           /\ mutableConfiguration' = Some(mc)
           /\ conf' = r.conf
           /\ ret' = IF r.threw THEN RetThrew ELSE RetBool(clearResult(wasValid, r.conf))
    /\ op' = Call("clear", "", <<>>, begin, end)
    /\ lastWritten' = NoneWritten
    /\ onlySets' = FALSE
    /\ nOps' = nOps + 1

(***************************************************************************)
(* applyMutation(m).  A mutation is [type, param1, param2]: param2 is the  *)
(* value of a SetValue or an AddValue and the end key of a ClearRange or a *)
(* DebugKeyRange.  KeyRangeRef::intersects and operator& are those of the  *)
(* key-range type.                                                         *)
(***************************************************************************)
configKeys == [begin |-> configKeysPrefix, end |-> configKeysEnd]

KeyRangeRef(begin, end) == [begin |-> begin, end |-> end]

intersects(r, s) == KeyLess(r.begin, s.end) /\ KeyLess(s.begin, r.end)

intersection(r, s) ==
    KeyRangeRef(IF KeyLess(r.begin, s.begin) THEN s.begin ELSE r.begin,
                IF KeyLess(r.end, s.end) THEN r.end ELSE s.end)

\* m.type == MutationRef::SetValue && m.param1.startsWith(configKeysPrefix)
isConfigSet(m) == m.type = "SetValue" /\ KeyIndex(m.param1) \in {KeyIndex(k) : k \in ConfigKeySet}

\* a test that takes every mutation that is not a SetValue of the namespace for a clear
isClearRangeOrDebug(m) == m.type \in {"ClearRange", "DebugKeyRange"}

\* m.type == MutationRef::ClearRange
isClearRange(m) == m.type = "ClearRange"

applyMutation(m, g) ==
    IF isConfigSet(m) THEN set(m.param1, m.param2, g)
    ELSE IF isClearRange(m) /\ intersects(KeyRangeRef(m.param1, m.param2), configKeys)
    THEN LET range == intersection(KeyRangeRef(m.param1, m.param2), configKeys)
         IN  clear(range.begin, range.end, g)
    ELSE /\ Running
         /\ op' = [name |-> "applyMutation", key |-> m.param1, value |-> <<>>,
                   begin |-> "", end |-> "", type |-> m.type]
         /\ ret' = RetVoid
         /\ UNCHANGED <<rawConfiguration, mutableConfiguration, conf, lastWritten, onlySets, nOps>>

(***************************************************************************)
(* setDefaultReplicationPolicy().                                          *)
(***************************************************************************)
setDefaultReplicationPolicyCall ==
    /\ Running
    /\ conf' = setDefaultReplicationPolicy(conf)
    /\ op' = Call("setDefaultReplicationPolicy", "", <<>>, "", "")
    /\ ret' = RetVoid
    /\ nOps' = nOps + 1
    /\ UNCHANGED <<rawConfiguration, mutableConfiguration, lastWritten, onlySets>>

(***************************************************************************)
(* getExcludedServers(): collapses the map into rawConfiguration.  The     *)
(* addresses it returns are not modelled.                                  *)
(***************************************************************************)
getExcludedServers ==
    /\ Running
    /\ LET m == makeConfigurationImmutable(rawConfiguration, mutableConfiguration)
       IN  /\ rawConfiguration' = m.raw
           /\ mutableConfiguration' = m.mutable
    /\ op' = Call("getExcludedServers", "", <<>>, "", "")
    /\ ret' = RetVoid
    /\ UNCHANGED <<conf, lastWritten, onlySets, nOps>>

(***************************************************************************)
(* The const calls get(key), isValid() and toMap().                        *)
(***************************************************************************)
getCall(key) ==
    /\ Running
    /\ op' = Call("get", key, <<>>, "", "")
    /\ ret' = RetOptional(get(rawConfiguration, mutableConfiguration, key))
    /\ UNCHANGED <<rawConfiguration, mutableConfiguration, conf, lastWritten, onlySets, nOps>>

isValidCall ==
    /\ Running
    /\ op' = Call("isValid", "", <<>>, "", "")
    /\ ret' = RetBool(isValid(conf))
    /\ UNCHANGED <<rawConfiguration, mutableConfiguration, conf, lastWritten, onlySets, nOps>>

toMapCall ==
    /\ Running
    /\ op' = Call("toMap", "", <<>>, "", "")
    /\ ret' = IF toMapDereferencesNull(conf) THEN RetCrash ELSE RetMap
    /\ UNCHANGED <<rawConfiguration, mutableConfiguration, conf, lastWritten, onlySets, nOps>>


(***************************************************************************)
(* Inputs.  A snapshot is given as the map of its pairs and loaded in key  *)
(* order.                                                                  *)
(***************************************************************************)
OverreadBytes == {"?", ","}

\* the bytes to draw for a call that parses value: one when it reads within bounds
BytesBeyond(value) == IF overreads(value, 0, 0) THEN OverreadBytes ELSE {"?"}

\* the values clear() will replay, and the bytes to draw for that replay
StoredValues ==
    IF present(mutableConfiguration)
    THEN {mutableConfiguration[1][k] : k \in DOMAIN mutableConfiguration[1]}
    ELSE {rawConfiguration[i].value : i \in 1..Len(rawConfiguration)}

ReplayBytes == IF \E v \in StoredValues : overreads(v, 0, 0) THEN OverreadBytes ELSE {"?"}

ZonePolicyBytes == <<"P", "1", "z", "3">>
MalformedPolicyBytes == <<"z", "3">>

SnapshotOf(pairs) == makeConfigurationImmutable(<<>>, Some(pairs)).raw

\* initialized, log_replicas=3, storage_quorum=3, storage_replicas=3, log_anti_quorum=0, both engines ssd-2
TripleKeys ==
    (K("initialized") :> <<>>) @@ (K("log_anti_quorum") :> <<"0">>)
    @@ (K("log_engine") :> <<"2">>) @@ (K("log_replicas") :> <<"3">>)
    @@ (K("storage_engine") :> <<"2">>) @@ (K("storage_quorum") :> <<"3">>)
    @@ (K("storage_replicas") :> <<"3">>)

\* the same with both policies stored as keys
TripleWithPolicyKeys ==
    TripleKeys @@ (K("log_replication_policy") :> ZonePolicyBytes)
    @@ (K("storage_replication_policy") :> ZonePolicyBytes)

Snapshots == {SnapshotOf(EmptyMap), SnapshotOf(TripleKeys), SnapshotOf(TripleWithPolicyKeys)}

SetInputs ==
    { <<K("initialized"), <<>>>>,
      <<K("storage_replicas"), <<"3">>>>,
      <<K("storage_replicas"), <<"1">>>>,
      <<K("proxies"), <<"5">>>>,
      <<K("proxies"), <<"x">>>>,
      <<K("excluded/1.2.3.4"), <<>>>>,
      <<K("primary_dc"), <<"a">>>>,
      <<K("primary_satellite_dcs"), <<"a", ",", "b", ",", "c">>>>,
      <<K("remote_satellite_dcs"), <<"a", "b", ",", ",">>>>,
      <<K("remote_satellite_dcs"), <<>>>>,
      <<K("log_replication_policy"), ZonePolicyBytes>>,
      <<K("log_replication_policy"), MalformedPolicyBytes>> }

ClearRanges ==
    { <<K("storage_replicas"), K("storage_replication_policy")>>,
      <<K("initialized"), K("log_anti_quorum")>>,
      <<K("excluded/"), K("excluded0")>>,
      <<K("logs"), K("logs")>>,
      <<K("primary_dc"), K("remote_dc")>>,
      <<configKeysPrefix, configKeysEnd>> }

GetKeys == {K("storage_replicas"), K("primary_dc")}

Next ==
    \/ \E rawConfig \in Snapshots : fromKeyValues(rawConfig, "?")
    \/ \E kv \in SetInputs : \E g \in BytesBeyond(kv[2]) : nOps < MaxOps /\ set(kv[1], kv[2], g)
    \/ \E r \in ClearRanges, g \in ReplayBytes : nOps < MaxOps /\ clear(r[1], r[2], g)
    \/ nOps < MaxOps /\ setDefaultReplicationPolicyCall
    \/ getExcludedServers
    \/ \E key \in GetKeys : getCall(key)
    \/ isValidCall
    \/ toMapCall

Spec == Init /\ [][Next]_vars


(***************************************************************************)
(* A second set of inputs, on the typed fields: snapshots of a valid       *)
(* two-region configuration without and with satellites, and values that   *)
(* make each part of isValid() and of toMap() vary.                        *)
(***************************************************************************)
RemoteKeys ==
    TripleWithPolicyKeys
    @@ (K("primary_dc") :> <<"a">>) @@ (K("remote_dc") :> <<"b">>)
    @@ (K("remote_log_replicas") :> <<"1">>) @@ (K("remote_log_policy") :> ZonePolicyBytes)

SatelliteKeys ==
    RemoteKeys
    @@ (K("satellite_log_replicas") :> <<"1">>) @@ (K("satellite_usable_dcs") :> <<"1">>)
    @@ (K("satellite_log_policy") :> ZonePolicyBytes)
    @@ (K("primary_satellite_dcs") :> <<"s">>) @@ (K("remote_satellite_dcs") :> <<"t">>)

FieldSnapshots ==
    {SnapshotOf(TripleWithPolicyKeys), SnapshotOf(RemoteKeys), SnapshotOf(SatelliteKeys)}

FieldInputs ==
    { <<K("proxies"), <<"5">>>>,
      <<K("auto_proxies"), <<"0">>>>,
      <<K("resolvers"), <<"2">>>>,
      <<K("logs"), <<"4">>>>,
      <<K("remote_logs"), <<"2">>>>,
      <<K("remote_logs"), <<"0">>>>,
      <<K("satellite_logs"), <<"2">>>>,
      <<K("log_routers"), <<"0">>>>,
      <<K("log_anti_quorum"), <<"-", "1">>>>,
      <<K("log_engine"), <<"3">>>>,
      <<K("storage_quorum"), <<"4">>>>,
      <<K("storage_replicas"), <<"x">>>>,
      <<K("remote_log_replicas"), <<"2">>>>,
      <<K("satellite_log_replicas"), <<"2">>>>,
      <<K("satellite_anti_quorum"), <<"-", "1">>>>,
      <<K("primary_dc"), <<"a", "\\">>>>,
      <<K("remote_dc"), <<"b">>>>,
      <<K("primary_satellite_dcs"), <<"a", ",", "b">>>>,
      <<K("remote_satellite_dcs"), <<"c">>>> }

FieldClearRanges ==
    { <<K("primary_dc"), K("proxies")>>,
      <<K("remote_dc"), K("remote_log_policy")>>,
      <<K("storage_replication_policy"), configKeysEnd>>,
      <<configKeysPrefix, configKeysEnd>> }

NextFields ==
    \/ \E rawConfig \in FieldSnapshots : fromKeyValues(rawConfig, "?")
    \/ \E kv \in FieldInputs : \E g \in BytesBeyond(kv[2]) : nOps < MaxFieldOps /\ set(kv[1], kv[2], g)
    \/ \E r \in FieldClearRanges : nOps < MaxFieldOps /\ clear(r[1], r[2], "?")
    \/ nOps < MaxFieldOps /\ setDefaultReplicationPolicyCall
    \/ isValidCall
    \/ toMapCall

SpecFields == Init /\ [][NextFields]_vars

(***************************************************************************)
(* A third set of inputs: the mutation stream given to applyMutation().    *)
(***************************************************************************)
MaxMutations == 3

Mutations ==
    { [type |-> "SetValue", param1 |-> K("storage_replicas"), param2 |-> <<"1">>],
      [type |-> "SetValue", param1 |-> K("initialized"), param2 |-> <<>>],
      [type |-> "SetValue", param1 |-> K("excluded/1.2.3.4"), param2 |-> <<>>],
      [type |-> "SetValue", param1 |-> K("primary_satellite_dcs"), param2 |-> <<"a", ",", "b">>],
      [type |-> "SetValue", param1 |-> "/backupDataFormat", param2 |-> <<"1">>],
      [type |-> "SetValue", param1 |-> "/coordinators", param2 |-> <<"x">>],
      [type |-> "AddValue", param1 |-> K("storage_replicas"), param2 |-> <<"1">>],
      [type |-> "DebugKeyRange", param1 |-> "/backupDataFormat", param2 |-> "/coordinators"],
      [type |-> "ClearRange", param1 |-> "/backupDataFormat", param2 |-> configKeysPrefix],
      [type |-> "ClearRange", param1 |-> configKeysEnd, param2 |-> "/coordinators"],
      [type |-> "ClearRange", param1 |-> "/backupDataFormat", param2 |-> "/coordinators"],
      [type |-> "ClearRange", param1 |-> "/backupDataFormat", param2 |-> K("logs")],
      [type |-> "ClearRange", param1 |-> K("storage_replicas"), param2 |-> "/coordinators"],
      [type |-> "ClearRange", param1 |-> K("logs"), param2 |-> K("logs")] }

NextMutations ==
    \/ \E rawConfig \in Snapshots : fromKeyValues(rawConfig, "?")
    \/ \E m \in Mutations : nOps < MaxMutations /\ applyMutation(m, "?")
    \/ nOps < MaxMutations /\ setDefaultReplicationPolicyCall
    \/ getExcludedServers
    \/ isValidCall

SpecMutations == Init /\ [][NextMutations]_vars

(***************************************************************************)
(* A fourth set of inputs, for the redundancy classifier of toMap():       *)
(* snapshots of initialized configurations over replication factors,      *)
(* quorums, team sizes, anti-quorums and pairs of policies.                *)
(***************************************************************************)
DcAndZonePolicyBytes == <<"P", "&", "d", "3", "z", "3">>

\* <<log_replication_policy, storage_replication_policy>>
PolicyPairs ==
    { <<ZonePolicyBytes, ZonePolicyBytes>>,
      <<DcAndZonePolicyBytes, DcAndZonePolicyBytes>>,
      <<DcAndZonePolicyBytes, ZonePolicyBytes>>,
      <<<<"P", "x", "h", "2", "z", "2">>, <<"P", "1", "h", "3">>>>,
      <<<<"P", "x", "d", "2", "z", "2">>, <<"P", "x", "d", "3", "z", "2">>>> }

ModeKeys(logReplicas, quorum, teamSize, antiQuorum, policies) ==
    (K("initialized") :> <<>>) @@ (K("log_anti_quorum") :> <<antiQuorum>>)
    @@ (K("log_engine") :> <<"2">>) @@ (K("log_replicas") :> <<logReplicas>>)
    @@ (K("storage_engine") :> <<"2">>) @@ (K("storage_quorum") :> <<quorum>>)
    @@ (K("storage_replicas") :> <<teamSize>>)
    @@ (K("log_replication_policy") :> policies[1])
    @@ (K("storage_replication_policy") :> policies[2])

ModeSnapshots ==
    { SnapshotOf(ModeKeys(l, q, t, a, p)) :
        l \in {"1", "2", "3", "4"}, q \in {"1", "2", "3", "6"}, t \in {"3", "6"},
        a \in {"0", "1"}, p \in PolicyPairs }
    \cup { SnapshotOf(ModeKeys(l, q, q, "0", p)) :
             l \in {"1", "2", "3", "4"}, q \in {"1", "2", "3", "6"}, p \in PolicyPairs }

NextModes ==
    \/ \E rawConfig \in ModeSnapshots : fromKeyValues(rawConfig, "?")
    \/ isValidCall
    \/ toMapCall

SpecModes == Init /\ [][NextModes]_vars

(***************************************************************************)
(* Claims.                                                                 *)
(***************************************************************************)
Get(key) == get(rawConfiguration, mutableConfiguration, key)

InRange(key, begin, end) == ~KeyLess(key, begin) /\ KeyLess(key, end)

\* C1: while only set calls have been made on the object (constructed empty or
\* loaded from a raw snapshot), get(k) is the last value written to k, and is
\* absent for a key never written and not in the snapshot.
C1_RoundTrip ==
    onlySets => \A k \in ConfigKeySet : Get(k) = lastWritten[k]

\* a key of the loaded snapshot has been overwritten by a second set of it, and
\* another key has never been written
C1_Witness ==
    /\ onlySets
    /\ nOps >= 2
    /\ op.name = "set" /\ op.key = K("storage_replicas") /\ op.value = <<"1">>
    /\ Get(K("storage_replicas")) = Some(<<"1">>)
    /\ Get(K("storage_quorum")) = Some(<<"3">>)
    /\ Get(K("primary_dc")) = Absent

\* C2: a clear of [begin, end) leaves get(k) absent for every key of the range
\* and as it was for every key outside it, from the snapshot form and from the
\* overlay form alike.
C2_ClearSemantics ==
    [][op'.name = "clear" =>
          \A k \in AllKeys :
              get(rawConfiguration', mutableConfiguration', k) =
                  IF InRange(k, op'.begin, op'.end) THEN Absent ELSE Get(k)]_vars

\* a clear has removed storage_replicas and kept its neighbours
C2_Witness ==
    /\ op.name = "clear" /\ op.begin = K("storage_replicas")
    /\ op.end = K("storage_replication_policy")
    /\ Get(K("storage_replicas")) = Absent
    /\ Get(K("storage_quorum")) = Some(<<"3">>)
    /\ Get(K("storage_replication_policy")) = Some(ZonePolicyBytes)

\* C3: clear returns true exactly when isValid() was true before the call and is
\* false after it, and false in every other case.
C3_ClearReturn ==
    [][op'.name = "clear" => ret' = RetBool(isValid(conf) /\ ~isValid(conf'))]_vars

\* a clear has returned true
C3_Witness ==
    /\ op.name = "clear"
    /\ ret = RetBool(TRUE)
    /\ ~isValid(conf)


\* the invariants of the data model, as the specification lists them
DataModelInvariants(c) ==
    /\ c.initialized
    /\ c.tLogWriteAntiQuorum >= 0
    /\ c.tLogReplicationFactor >= 1 /\ c.durableStorageQuorum >= 1 /\ c.storageTeamSize >= 1
    /\ c.durableStorageQuorum <= c.storageTeamSize
    /\ getDesiredProxies(c) >= 1 /\ getDesiredResolvers(c) >= 1 /\ getDesiredLogs(c) >= 1
    /\ getDesiredRemoteLogs(c) >= 1 /\ getDesiredSatelliteLogs(c) >= 1
    /\ getDesiredLogRouters(c) >= 1
    /\ c.tLogDataStoreType # END /\ c.storageServerStoreType # END
    /\ present(c.storagePolicy) /\ present(c.tLogPolicy)
    /\ (c.remoteTLogReplicationFactor = 0
        \/ (present(c.remoteTLogPolicy) /\ present(c.primaryDcId) /\ present(c.remoteDcId)
            /\ c.durableStorageQuorum = c.storageTeamSize))
    /\ (present(c.primaryDcId) <=> present(c.remoteDcId))
    /\ (c.satelliteTLogReplicationFactor = 0
        \/ (present(c.satelliteTLogPolicy) /\ Len(c.primarySatelliteDcIds) > 0
            /\ Len(c.remoteSatelliteDcIds) > 0 /\ c.remoteTLogReplicationFactor > 0))
    /\ Len(c.primarySatelliteDcIds) = Len(c.remoteSatelliteDcIds)

\* what isValid() asks beyond that list
AutomaticCountsAndSigns(c) ==
    /\ c.autoMasterProxyCount >= 1 /\ c.autoResolverCount >= 1 /\ c.autoDesiredTLogCount >= 1
    /\ c.remoteTLogReplicationFactor >= 0 /\ c.satelliteTLogReplicationFactor >= 0
    /\ c.satelliteTLogWriteAntiQuorum >= 0 /\ c.satelliteTLogUsableDcs >= 0

\* C4 as stated: isValid() is true if and only if every invariant of the data
\* model's list holds.
C4_ValidIffListed ==
    isValid(conf) <=> DataModelInvariants(conf)

\* C4, amended: isValid() is true if and only if every invariant of the data
\* model's list holds and the three automatic counts are at least 1 and the
\* remote and satellite replication factors, the satellite anti-quorum and the
\* satellite usable-dc count are not negative; a call of isValid() returns that
\* value and changes neither the store nor the typed fields.
C4_ValidIffListedAndSigns ==
    /\ [](/\ isValid(conf) <=> (DataModelInvariants(conf) /\ AutomaticCountsAndSigns(conf))
          /\ op.name = "isValid" =>
                ret = RetBool(DataModelInvariants(conf) /\ AutomaticCountsAndSigns(conf)))
    /\ [][op'.name = "isValid" =>
             UNCHANGED <<rawConfiguration, mutableConfiguration, conf>>]_vars

\* isValid() has returned true on a two-region configuration with satellites
C4_Witness ==
    /\ op.name = "isValid" /\ ret = RetBool(TRUE)
    /\ conf.satelliteTLogReplicationFactor > 0
    /\ conf.remoteTLogReplicationFactor > 0

\* the split of a byte string on ',': at least one element, empty elements
\* between consecutive commas
RECURSIVE SplitOnComma(_, _, _)
SplitOnComma(v, i, current) ==
    IF i > Len(v) THEN <<Some(current)>>
    ELSE IF v[i] = "," THEN <<Some(current)>> \o SplitOnComma(v, i + 1, <<>>)
    ELSE SplitOnComma(v, i + 1, Append(current, v[i]))

\* C5: after a set of primary_satellite_dcs (remote_satellite_dcs) to v, the
\* field is exactly the split of v on ',', whatever was set before.
C5_SplitOverwrites ==
    /\ (op.name = "set" /\ op.key = K("primary_satellite_dcs") /\ ret.kind = "bool")
          => conf.primarySatelliteDcIds = SplitOnComma(op.value, 1, <<>>)
    /\ (op.name = "set" /\ op.key = K("remote_satellite_dcs") /\ ret.kind = "bool")
          => conf.remoteSatelliteDcIds = SplitOnComma(op.value, 1, <<>>)


\* the configuration C6 starts from: valid, with the five keys stored and the
\* default zone-based policies in force
TripleConfigured ==
    /\ isValid(conf)
    /\ present(Get(K("initialized")))
    /\ Get(K("log_replicas")) = Some(<<"3">>)
    /\ Get(K("storage_quorum")) = Some(<<"3">>)
    /\ Get(K("storage_replicas")) = Some(<<"3">>)
    /\ Get(K("log_anti_quorum")) = Some(<<"0">>)
    /\ conf.tLogPolicy = ZonePolicy(conf.tLogReplicationFactor)
    /\ conf.storagePolicy = ZonePolicy(conf.storageTeamSize)

\* [begin, end) holds storage_replicas and no other stored key
OnlyStorageReplicasIn(begin, end) ==
    /\ InRange(K("storage_replicas"), begin, end)
    /\ \A k \in AllKeys \ {K("storage_replicas")} : present(Get(k)) => ~InRange(k, begin, end)

\* C6: in that configuration toMap()["redundancy_mode"] is "triple" (and toMap()
\* does not fail), and a clear of a range holding only the storage_replicas key
\* leaves storageTeamSize at -1 and returns true.
C6_TripleThenClear ==
    /\ [](TripleConfigured =>
             /\ ~toMapDereferencesNull(conf)
             /\ toMap(conf)["redundancy_mode"] = "triple")
    /\ [][(TripleConfigured /\ op'.name = "clear" /\ OnlyStorageReplicasIn(op'.begin, op'.end)) =>
             (conf'.storageTeamSize = -1 /\ ret' = RetBool(TRUE))]_vars

\* the clear of storage_replicas has returned true on a configuration whose
\* policies had been installed by setDefaultReplicationPolicy()
C6_Witness ==
    /\ op.name = "clear" /\ op.begin = K("storage_replicas") /\ ret = RetBool(TRUE)
    /\ conf.storageTeamSize = -1
    /\ Get(K("storage_quorum")) = Some(<<"3">>)
    /\ Get(K("log_replicas")) = Some(<<"3">>)
    /\ Get(K("log_replication_policy")) = Absent
    /\ Get(K("storage_replication_policy")) = Absent

\* C7: while exactly one of primary_dc and remote_dc is stored, isValid() is
\* false; while both are stored, the comparison of the two ids in isValid() holds.
C7_DcSymmetry ==
    /\ (present(Get(K("primary_dc"))) # present(Get(K("remote_dc")))) => ~isValid(conf)
    /\ (present(Get(K("primary_dc"))) /\ present(Get(K("remote_dc")))) => dcsValid(conf)

\* only primary_dc is stored, and every part of isValid() but the comparison of
\* the two ids holds
C7_Witness ==
    /\ op.name = "set" /\ op.key = K("primary_dc")
    /\ present(Get(K("primary_dc"))) /\ ~present(Get(K("remote_dc")))
    /\ replicationValid(conf) /\ countsValid(conf) /\ storeTypesValid(conf)
    /\ policiesValid(conf) /\ remoteValid(conf) /\ satelliteValid(conf)
    /\ ~isValid(conf)

HasCount(map, key, field) == (key \in DOMAIN map <=> field # -1) /\ (field # -1 => map[key] = formatInt(field))

\* C8: toMap() of an initialized configuration holds each of logs, remote_logs,
\* satellite_logs, proxies and resolvers exactly when its own desired count is
\* not -1, with that count in decimal.
C8_OwnCountDecides ==
    (conf.initialized /\ ~toMapDereferencesNull(conf)) =>
        /\ HasCount(toMap(conf), "logs", conf.desiredTLogCount)
        /\ HasCount(toMap(conf), "remote_logs", conf.remoteDesiredTLogCount)
        /\ HasCount(toMap(conf), "satellite_logs", conf.satelliteDesiredTLogCount)
        /\ HasCount(toMap(conf), "proxies", conf.masterProxyCount)
        /\ HasCount(toMap(conf), "resolvers", conf.resolverCount)

\* the printable forms of the present entries of a list, joined by ','
RECURSIVE JoinedByComma(_, _, _)
JoinedByComma(dcs, i, none) ==
    IF i > Len(dcs) THEN ""
    ELSE IF present(dcs[i])
         THEN (IF none THEN "" ELSE ",") \o printable(dcs[i][1]) \o JoinedByComma(dcs, i + 1, FALSE)
         ELSE JoinedByComma(dcs, i + 1, none)

\* C9: toMap() of an initialized configuration with a non-empty satellite-dc list
\* gives, under primary_satellite_dcs (remote_satellite_dcs), the printable forms
\* of the list's present entries joined by ','.
C9_JoinedByComma ==
    (conf.initialized /\ ~toMapDereferencesNull(conf)) =>
        /\ Len(conf.primarySatelliteDcIds) # 0 =>
              toMap(conf)["primary_satellite_dcs"] = JoinedByComma(conf.primarySatelliteDcIds, 1, TRUE)
        /\ Len(conf.remoteSatelliteDcIds) # 0 =>
              toMap(conf)["remote_satellite_dcs"] = JoinedByComma(conf.remoteSatelliteDcIds, 1, TRUE)

RedundancyModes ==
    {"single", "double", "triple", "three_datacenter", "three_data_hall", "multi_dc", "custom"}
StorageEngines == {"ssd-1", "ssd-2", "memory", "custom"}
SatelliteRedundancyModes ==
    {"one_satellite_single", "one_satellite_double", "one_satellite_triple",
     "two_satellite_safe", "two_satellite_fast", "none", "custom"}
RemoteRedundancyModes == {"remote_single", "remote_double", "remote_triple", "none", "custom"}

\* C10: when isValid() is true, toMap() does not fail and holds redundancy_mode,
\* storage_engine, satellite_redundancy_mode and remote_redundancy_mode, each
\* with one of its named modes or "custom".
C10_ClassifierTotal ==
    isValid(conf) =>
        /\ ~toMapDereferencesNull(conf)
        /\ op.name = "toMap" => ret = RetMap
        /\ {"redundancy_mode", "storage_engine", "satellite_redundancy_mode",
            "remote_redundancy_mode"} \subseteq DOMAIN toMap(conf)
        /\ toMap(conf)["redundancy_mode"] \in RedundancyModes
        /\ toMap(conf)["storage_engine"] \in StorageEngines
        /\ toMap(conf)["satellite_redundancy_mode"] \in SatelliteRedundancyModes
        /\ toMap(conf)["remote_redundancy_mode"] \in RemoteRedundancyModes

\* toMap() has returned on a valid configuration with satellites
C10_Witness ==
    /\ isValid(conf)
    /\ op.name = "toMap" /\ ret = RetMap
    /\ toMap(conf)["satellite_redundancy_mode"] = "one_satellite_single"
    /\ toMap(conf)["remote_redundancy_mode"] = "remote_single"
    /\ toMap(conf)["redundancy_mode"] = "triple"

\* the key suffixes of the dispatch table
DispatchTable ==
    {"initialized", "proxies", "resolvers", "logs", "log_replicas", "log_anti_quorum",
     "storage_quorum", "storage_replicas", "log_engine", "storage_engine", "auto_proxies",
     "auto_resolvers", "auto_logs", "storage_replication_policy", "log_replication_policy",
     "remote_logs", "remote_log_replicas", "remote_log_policy", "satellite_log_policy",
     "satellite_logs", "satellite_log_replicas", "satellite_anti_quorum",
     "satellite_usable_dcs", "primary_dc", "remote_dc", "primary_satellite_dcs",
     "remote_satellite_dcs", "log_routers"}

\* C11: set(key, value) with a key whose suffix is not in the dispatch table
\* returns false and changes no typed field, so isValid() and toMap() are as
\* before; the key is stored, so get(key) is value.
C11_UnknownKey ==
    [][(op'.name = "set" /\ removePrefix(op'.key) \notin DispatchTable) =>
          /\ ret' = RetBool(FALSE)
          /\ conf' = conf
          /\ isValid(conf') = isValid(conf)
          /\ toMapDereferencesNull(conf') = toMapDereferencesNull(conf)
          /\ (~toMapDereferencesNull(conf) => toMap(conf') = toMap(conf))
          /\ get(rawConfiguration', mutableConfiguration', op'.key) = Some(op'.value)]_vars

\* an excluded-server key has been set on a valid configuration
C11_Witness ==
    /\ op.name = "set" /\ op.key = K("excluded/1.2.3.4") /\ ret = RetBool(FALSE)
    /\ isValid(conf)
    /\ Get(K("excluded/1.2.3.4")) = Some(<<>>)

\* whether [begin, end) and the configuration namespace overlap as ranges: each
\* begins before the other ends (so does a range inside the namespace that
\* holds no key, such as [k, k))
MeetsNamespace(begin, end) == KeyLess(begin, configKeysEnd) /\ KeyLess(configKeysPrefix, end)

\* the configuration after set(key, value): the store and the typed fields
EffectOfSet(key, value) ==
    /\ \A k \in AllKeys :
          get(rawConfiguration', mutableConfiguration', k) = IF k = key THEN Some(value) ELSE Get(k)
    /\ present(mutableConfiguration') /\ rawConfiguration' = <<>>
    /\ \E g \in OverreadBytes : conf' = setInternal(conf, key, value, g).conf

\* the configuration after clear of the part of [begin, end) inside the namespace
EffectOfClear(begin, end) ==
    /\ \A k \in AllKeys :
          get(rawConfiguration', mutableConfiguration', k) =
              IF InRange(k, begin, end) /\ InRange(k, configKeysPrefix, configKeysEnd)
              THEN Absent ELSE Get(k)
    /\ present(mutableConfiguration') /\ rawConfiguration' = <<>>
    /\ \E g \in OverreadBytes :
          conf' = replay(DefaultFields, mutableConfiguration'[1],
                         SortedKeys(DOMAIN mutableConfiguration'[1]), 1, g).conf

\* C12: applyMutation(m) changes nothing of the configuration when m is a set
\* outside the namespace, a clear that does not meet the namespace or of another
\* kind; a set inside the namespace has the effect of set(param1, param2), a
\* clear that meets the namespace that of clear on the common part.
C12_ApplyMutation ==
    [][\A m \in Mutations :
          applyMutation(m, "?") =>
              IF m.type = "SetValue" /\ m.param1 \in ConfigKeySet
              THEN EffectOfSet(m.param1, m.param2)
              ELSE IF m.type = "ClearRange" /\ MeetsNamespace(m.param1, m.param2)
              THEN EffectOfClear(m.param1, m.param2)
              ELSE UNCHANGED <<rawConfiguration, mutableConfiguration, conf>>]_vars

\* a mutation of another kind has been ignored on a configuration that a
\* clear of the same range would have emptied
C12_Witness ==
    /\ op.name = "applyMutation" /\ op.type = "DebugKeyRange"
    /\ present(Get(K("storage_replicas")))
    /\ isValid(conf)

\* the keys written so far, when the object was populated by set calls only,
\* each with a key of its own
WrittenKeys == {k \in ConfigKeySet : present(lastWritten[k])}

PopulatedBySets == Running /\ onlySets /\ Cardinality(WrittenKeys) = nOps /\ nOps >= 2

\* the orders in which a set of keys can be written
Orders(keys) ==
    {order \in [1..Cardinality(keys) -> keys] :
        \A i, j \in 1..Cardinality(keys) : order[i] = order[j] => i = j}

\* the typed fields of a new object after set(order[i], lastWritten[order[i]]) for i, i+1, ...
RECURSIVE SetInOrder(_, _, _, _)
SetInOrder(c, order, i, g) ==
    IF i > Len(order) THEN c
    ELSE SetInOrder(setInternal(c, order[i], lastWritten[order[i]][1], g).conf, order, i + 1, g)

\* C13: a configuration populated by set calls with distinct keys has the typed
\* fields and the toString() of any configuration populated with the same pairs
\* in any order.
C13_OrderIndependent ==
    PopulatedBySets =>
        \A order \in Orders(WrittenKeys) : \A g \in OverreadBytes :
            LET other == SetInOrder(DefaultFields, order, 1, g)
            IN  /\ other = conf
                /\ toMapDereferencesNull(other) = toMapDereferencesNull(conf)
                /\ ~toMapDereferencesNull(conf) => toString(other) = toString(conf)

RECURSIVE Reparsed(_, _, _, _)
Reparsed(c, stored, i, g) ==
    IF i > Len(KeyOrder) THEN c
    ELSE IF present(stored[KeyOrder[i]])
         THEN Reparsed(setInternal(c, KeyOrder[i], stored[KeyOrder[i]][1], g).conf, stored, i + 1, g)
         ELSE Reparsed(c, stored, i + 1, g)

\* C15: after a clear, the typed fields are those obtained from the defaults by
\* parsing every key the store still holds, in ascending key order; a clear whose
\* range contains the initialized key leaves initialized false and isValid() false.
C15_ResetAndReplay ==
    [][(op'.name = "clear" /\ ret'.kind = "bool") =>
          LET stored == [k \in AllKeys |-> get(rawConfiguration', mutableConfiguration', k)]
          IN  /\ \E g \in OverreadBytes : conf' = Reparsed(DefaultFields, stored, 1, g)
              /\ InRange(K("initialized"), op'.begin, op'.end) =>
                    (~conf'.initialized /\ ~isValid(conf'))]_vars

\* a clear of a range holding the initialized key has made a valid
\* configuration invalid and kept the fields of the keys outside the range
C15_Witness ==
    /\ op.name = "clear" /\ op.begin = K("initialized") /\ ret = RetBool(TRUE)
    /\ ~conf.initialized
    /\ Get(K("initialized")) = Absent
    /\ conf.storageTeamSize = 3 /\ conf.tLogReplicationFactor = 3

\* the policies named by the redundancy modes
DcAndZone == PolicyAnd(<<PolicyAcross(3, "dcid", PolicyOne), PolicyAcross(3, "zoneid", PolicyOne)>>)
HallThenZone(n) == PolicyAcross(n, "data_hall", PolicyAcross(2, "zoneid", PolicyOne))
DcThenZone(n) == PolicyAcross(n, "dcid", PolicyAcross(2, "zoneid", PolicyOne))

\* the redundancy mode of the specification's table
RedundancyModeOf(c) ==
    LET logs == c.tLogReplicationFactor
        quorum == c.durableStorageQuorum
    IN  CASE c.durableStorageQuorum # c.storageTeamSize \/ c.tLogWriteAntiQuorum # 0 -> "custom"
          [] OTHER ->
             CASE logs = 1 /\ quorum = 1 -> "single"
               [] logs = 2 /\ quorum = 2 -> "double"
               [] logs = 3 /\ quorum = 3 ->
                    IF c.tLogPolicy = Some(DcAndZone) /\ c.storagePolicy = Some(DcAndZone)
                    THEN "three_datacenter" ELSE "triple"
               [] /\ logs = 4 /\ quorum = 3 /\ c.tLogPolicy = Some(HallThenZone(2))
                  /\ c.storagePolicy = Some(PolicyAcross(3, "data_hall", PolicyOne)) -> "three_data_hall"
               [] /\ logs = 4 /\ quorum = 6 /\ c.tLogPolicy = Some(DcThenZone(2))
                  /\ c.storagePolicy = Some(DcThenZone(3)) -> "multi_dc"
               [] OTHER -> "custom"

\* C16: toMap() of an initialized configuration gives redundancy_mode the value
\* of the specification's table, and one value only.
C16_RedundancyMode ==
    (conf.initialized /\ ~toMapDereferencesNull(conf)) =>
        /\ "redundancy_mode" \in DOMAIN toMap(conf)
        /\ toMap(conf)["redundancy_mode"] = RedundancyModeOf(conf)
        /\ op.name = "toMap" => ret = RetMap

\* toMap() has returned on a three_data_hall configuration
C16_Witness ==
    /\ op.name = "toMap" /\ ret = RetMap
    /\ conf.tLogReplicationFactor = 4 /\ conf.durableStorageQuorum = 3
    /\ toMap(conf)["redundancy_mode"] = "three_data_hall"

\* a snapshot sorted by key, no key twice
SortedByKey(raw) == \A i \in 1..(Len(raw) - 1) : KeyLess(raw[i].key, raw[i + 1].key)

\* get(k) for every key, on a representation
Contents(raw, mutable) == [k \in AllKeys |-> get(raw, mutable, k)]

\* C17: the overlay built from the store and the snapshot collapsed from it have
\* the contents of the store; the collapsed snapshot is sorted by key without
\* duplicates and collapsing it again changes nothing; while the overlay exists
\* the raw snapshot is empty; getExcludedServers() collapses the overlay and
\* changes neither a get result nor a typed field.
C17_Representation ==
    /\ [](LET m == makeConfigurationMutable(rawConfiguration, mutableConfiguration)
              c == makeConfigurationImmutable(rawConfiguration, mutableConfiguration)
              stored == Contents(rawConfiguration, mutableConfiguration)
          IN  /\ Contents(m.raw, m.mutable) = stored
              /\ Contents(c.raw, c.mutable) = stored
              /\ ~present(c.mutable) /\ SortedByKey(c.raw)
              /\ makeConfigurationImmutable(c.raw, c.mutable) = c
              /\ present(mutableConfiguration) => rawConfiguration = <<>>
              /\ SortedByKey(rawConfiguration))
    /\ [][op'.name = "getExcludedServers" =>
             /\ Contents(rawConfiguration', mutableConfiguration')
                   = Contents(rawConfiguration, mutableConfiguration)
             /\ conf' = conf
             /\ ~present(mutableConfiguration')
             /\ rawConfiguration'
                   = makeConfigurationImmutable(rawConfiguration, mutableConfiguration).raw]_vars

\* getExcludedServers() has collapsed an overlay built from a loaded snapshot
\* and a set
C17_Witness ==
    /\ op.name = "getExcludedServers"
    /\ ~present(mutableConfiguration)
    /\ Len(rawConfiguration) >= 8
    /\ Get(K("excluded/1.2.3.4")) = Some(<<>>)
    /\ Get(K("storage_replicas")) = Some(<<"3">>)

\* the typed fields c are those obtained from the defaults by parsing every key
\* of the store in key order
DerivedFromStore(raw, mutable, c) ==
    \E g \in OverreadBytes : c = Reparsed(DefaultFields, Contents(raw, mutable), 1, g)

\* C18: a set or a clear that returns keeps the typed fields a function of the
\* store contents: if they were the defaults with every stored key parsed in
\* key order before the call, they are so after it.  (They are so in a new
\* object and after the load of a snapshot.)
C18_FieldsFromStore ==
    [][(/\ op'.name \in {"set", "clear"} /\ ret'.kind = "bool"
        /\ DerivedFromStore(rawConfiguration, mutableConfiguration, conf)) =>
          DerivedFromStore(rawConfiguration', mutableConfiguration', conf')]_vars

\* C19: a clear whose range holds no stored key returns false and leaves
\* isValid() as it was, whether the policies in force came from policy keys or
\* from setDefaultReplicationPolicy().
C19_EmptyClearKeepsValidity ==
    [][(/\ op'.name = "clear" /\ ret'.kind = "bool"
        /\ \A k \in AllKeys : InRange(k, op'.begin, op'.end) => ~present(Get(k))) =>
          /\ ret' = RetBool(FALSE)
          /\ isValid(conf') = isValid(conf)]_vars

\* whether clear(begin, end), called on the store (raw, mutable), throws
ClearThrows(raw, mutable, begin, end) ==
    LET m == makeConfigurationMutable(raw, mutable)
        mc == mapErase(m.mutable[1], begin, end)
    IN  \E g \in OverreadBytes : replay(DefaultFields, mc, SortedKeys(DOMAIN mc), 1, g).threw

\* C20: a set that throws leaves the store as it was before the call, and a
\* clear of a range that does not hold the key of that set then completes.
C20_FailedSetLeavesStore ==
    [][(op'.name = "set" /\ ret' = RetThrew) =>
          /\ Contents(rawConfiguration', mutableConfiguration')
                = Contents(rawConfiguration, mutableConfiguration)
          /\ \A r \in ClearRanges :
                ~InRange(op'.key, r[1], r[2]) =>
                    ~ClearThrows(rawConfiguration', mutableConfiguration', r[1], r[2])]_vars

=============================================================================
